---------------------------- MODULE Spec2Model ----------------------------
(***************************************************************************)
(* Model of Crowd/m.py: download_yolov8n_models (the Acquirer),            *)
(* verify_downloads (the Verifier) and the __main__ entry point.           *)
(*                                                                         *)
(* The state is the part of the filesystem the script touches, the         *)
(* position of the script, what it has printed, and a few history          *)
(* variables counting what the current run has done.  The model loader     *)
(* YOLO(...) and the converter model.export(...) are opaque library calls: *)
(* each is a nondeterministic choice over the outcomes such a call can     *)
(* have (raise, use a file in place, fetch into the working directory,     *)
(* resolve from a loader-managed cache, write beside the loaded file).     *)
(***************************************************************************)
EXTENDS Naturals, Sequences, FiniteSets

\* Number of successive executions of the script that are explored.
MaxRuns == 2
\* Number of distinct artifact contents (publisher releases) that are explored.
MaxVersion == 2

\* ------------------------------------------------------------------ paths
cwd_pt    == "yolov8n.pt"
pt_path   == "models/yolov8n.pt"
cwd_onnx  == "yolov8n.onnx"
onnx_path == "models/yolov8n.onnx"

Paths == {cwd_pt, pt_path, cwd_onnx, onnx_path}

\* Content of a file: 0 is "no such file", v > 0 is the content of release v.
Absent   == 0
Versions == 1..MaxVersion

\* required_files of verify_downloads, in iteration order.
required_files ==
  << [name |-> "PyTorch", path |-> pt_path],
     [name |-> "ONNX",    path |-> onnx_path] >>

VARIABLES
  fs,          \* [Paths -> 0..MaxVersion], the artifact files on disk
  models_dir,  \* whether the directory models/ exists
  pc,          \* position of the script
  out,         \* lines printed by the current run
  exc,         \* the exception raised in the current run ("none" if none)
  caught,      \* whether the except clause of the Acquirer has run
  model,       \* content held by the model loaded for conversion (0: none)
  model_src,   \* where that model was loaded from: "none", "file", "cache"
  all_exists,  \* local of verify_downloads
  vi,          \* loop index of verify_downloads over required_files
  run,         \* number of the current execution of the script
  start,       \* fs as it was when the current run started
  checked,     \* what line 23 saw: "none", "present", "absent"
  exports,     \* calls of model.export in the current run
  moves,       \* calls of os.rename in the current run
  verifies     \* calls of verify_downloads in the current run

vars == << fs, models_dir, pc, out, exc, caught, model, model_src, all_exists,
           vi, run, start, checked, exports, moves, verifies >>

\* os.path.exists
Exists(p) == fs[p] # Absent

\* ------------------------------------------------------------ printed text
DownloadingLine == "Downloading YOLOv8n PyTorch model..."
ConvertingLine  == "Converting to ONNX format..."
CompleteLine    == "Download complete!"
SavedPtLine     == "PyTorch model saved to: " \o pt_path
SavedOnnxLine   == "ONNX model saved to: " \o onnx_path
ErrorLine(e)    == "Error downloading models: " \o e
HintLine        == "Please make sure you have the latest ultralytics package installed:"
PipLine         == "pip install --upgrade ultralytics"
SuccessLine     == "All model files downloaded successfully!"
FailureLine     == "Some model files failed to download. Please check errors above."

StatusWord(exists) == IF exists THEN "Found" ELSE "Missing"

StatusLine(name, exists, path) ==
  name \o " model: " \o StatusWord(exists) \o " at " \o path

\* ------------------------------------------------------------------- Init
TypeOK ==
  /\ fs \in [Paths -> 0..MaxVersion]
  /\ models_dir \in BOOLEAN
  /\ caught \in BOOLEAN
  /\ all_exists \in BOOLEAN
  /\ model \in 0..MaxVersion
  /\ run \in 1..MaxRuns

\* The script can be started in any state of the filesystem: each artifact
\* file present (an earlier release) or not, models/ present or not.
Init ==
  /\ models_dir \in BOOLEAN
  /\ fs \in [Paths -> {Absent, 1}]
  /\ (~models_dir) => (fs[pt_path] = Absent /\ fs[onnx_path] = Absent)
  /\ pc = "makedirs"
  /\ out = << >>
  /\ exc = "none"
  /\ caught = FALSE
  /\ model = Absent
  /\ model_src = "none"
  /\ all_exists = TRUE
  /\ vi = 1
  /\ run = 1
  /\ start = fs
  /\ checked = "none"
  /\ exports = 0
  /\ moves = 0
  /\ verifies = 0

\* --------------------------------------------------------------- Acquirer
\* Line 8: os.makedirs("models", exist_ok=True), before the try statement.
\* It succeeds silently when models/ exists; creating it can fail (permission,
\* disk full), and that OSError is raised outside the try.
Makedirs ==
  /\ pc = "makedirs"
  /\ \/ /\ models_dir' = TRUE
        /\ pc' = "load1"
        /\ UNCHANGED exc
     \/ /\ ~models_dir
        /\ exc' = "makedirs"
        /\ pc' = "crashed"
        /\ UNCHANGED models_dir
  /\ UNCHANGED << fs, out, caught, model, model_src, all_exists, vi, run,
                  start, checked, exports, moves, verifies >>

\* Lines 12-13: print, then pt_model = YOLO("yolov8n.pt").
LoadFirst ==
  /\ pc = "load1"
  /\ out' = Append(out, DownloadingLine)
  /\ \/ /\ exc' = "YOLO(yolov8n.pt)"
        /\ pc' = "except"
        /\ UNCHANGED fs
     \/ /\ Exists(cwd_pt)
        /\ pc' = "check_pt"
        /\ UNCHANGED << fs, exc >>
     \/ /\ ~Exists(cwd_pt)
        /\ \E v \in Versions : fs' = [fs EXCEPT ![cwd_pt] = v]
        /\ pc' = "check_pt"
        /\ UNCHANGED exc
     \/ /\ ~Exists(cwd_pt)
        /\ pc' = "check_pt"
        /\ UNCHANGED << fs, exc >>
  /\ UNCHANGED << models_dir, caught, model, model_src, all_exists, vi, run,
                  start, checked, exports, moves, verifies >>

\* Lines 17-18: if os.path.exists("yolov8n.pt"): os.rename("yolov8n.pt", pt_path).
\* os.rename replaces an existing destination (POSIX) or raises (permission,
\* or an existing destination on Windows).
MovePt ==
  /\ pc = "check_pt"
  /\ IF Exists(cwd_pt)
       THEN \/ /\ fs' = [fs EXCEPT ![pt_path] = fs[cwd_pt], ![cwd_pt] = Absent]
               /\ moves' = moves + 1
               /\ pc' = "check_onnx"
               /\ UNCHANGED exc
            \/ /\ exc' = "rename(yolov8n.pt)"
               /\ moves' = moves + 1
               /\ pc' = "except"
               /\ UNCHANGED fs
       ELSE /\ pc' = "check_onnx"
            /\ UNCHANGED << fs, exc, moves >>
  /\ UNCHANGED << models_dir, out, caught, model, model_src, all_exists, vi,
                  run, start, checked, exports, verifies >>

NeedsConversionAlways(onnx_exists) == TRUE

\* Line 23: if not os.path.exists(onnx_path)
NeedsConversion(onnx_exists) == ~onnx_exists

\* Lines 21-23: print, then the existence check that guards the conversion.
CheckOnnx ==
  /\ pc = "check_onnx"
  /\ out' = Append(out, ConvertingLine)
  /\ checked' = IF Exists(onnx_path) THEN "present" ELSE "absent"
  /\ pc' = IF NeedsConversion(Exists(onnx_path)) THEN "load2" ELSE "complete"
  /\ UNCHANGED << fs, models_dir, exc, caught, model, model_src, all_exists,
                  vi, run, start, moves, exports, verifies >>

\* Line 24: model = YOLO(pt_path).  With the file in place it is loaded (or
\* the load fails); without it the loader raises, fetches the named asset to
\* that path, or resolves it from its own cache.
LoadSecond ==
  /\ pc = "load2"
  /\ \/ /\ exc' = "YOLO(models/yolov8n.pt)"
        /\ pc' = "except"
        /\ UNCHANGED << fs, model, model_src >>
     \/ /\ Exists(pt_path)
        /\ model' = fs[pt_path]
        /\ model_src' = "file"
        /\ pc' = "export"
        /\ UNCHANGED << fs, exc >>
     \/ /\ ~Exists(pt_path)
        /\ \E v \in Versions :
             /\ fs' = [fs EXCEPT ![pt_path] = v]
             /\ model' = v
        /\ model_src' = "file"
        /\ pc' = "export"
        /\ UNCHANGED exc
     \/ /\ ~Exists(pt_path)
        /\ \E v \in Versions : model' = v
        /\ model_src' = "cache"
        /\ pc' = "export"
        /\ UNCHANGED << fs, exc >>
  /\ UNCHANGED << models_dir, out, caught, all_exists, vi, run, start,
                  checked, exports, moves, verifies >>

\* Line 25: model.export(format="onnx", imgsz=[640, 640]).  The converter
\* writes its output in the working directory, beside the file the model was
\* loaded from, or (model loaded from the cache) in the loader's cache.
Export ==
  /\ pc = "export"
  /\ exports' = exports + 1
  /\ \/ /\ exc' = "export"
        /\ pc' = "except"
        /\ UNCHANGED fs
     \/ /\ fs' = [fs EXCEPT ![cwd_onnx] = model]
        /\ pc' = "check_cwd_onnx"
        /\ UNCHANGED exc
     \/ /\ model_src = "file"
        /\ fs' = [fs EXCEPT ![onnx_path] = model]
        /\ pc' = "check_cwd_onnx"
        /\ UNCHANGED exc
     \/ /\ model_src = "cache"
        /\ pc' = "check_cwd_onnx"
        /\ UNCHANGED << fs, exc >>
  /\ UNCHANGED << models_dir, out, caught, model, model_src, all_exists, vi,
                  run, start, checked, moves, verifies >>

\* Lines 28-29: if os.path.exists("yolov8n.onnx"): os.rename(..., onnx_path)
MoveOnnx ==
  /\ pc = "check_cwd_onnx"
  /\ IF Exists(cwd_onnx)
       THEN \/ /\ fs' = [fs EXCEPT ![onnx_path] = fs[cwd_onnx],
                                   ![cwd_onnx] = Absent]
               /\ moves' = moves + 1
               /\ pc' = "complete"
               /\ UNCHANGED exc
            \/ /\ exc' = "rename(yolov8n.onnx)"
               /\ moves' = moves + 1
               /\ pc' = "except"
               /\ UNCHANGED fs
       ELSE /\ pc' = "complete"
            /\ UNCHANGED << fs, exc, moves >>
  /\ UNCHANGED << models_dir, out, caught, model, model_src, all_exists, vi,
                  run, start, checked, exports, verifies >>

\* Lines 31-33, then the function returns.
Complete ==
  /\ pc = "complete"
  /\ out' = out \o << CompleteLine, SavedPtLine, SavedOnnxLine >>
  /\ pc' = "returned"
  /\ UNCHANGED << fs, models_dir, exc, caught, model, model_src, all_exists,
                  vi, run, start, checked, exports, moves, verifies >>

ExceptReraise ==
  /\ pc = "except"
  /\ caught' = TRUE
  /\ out' = out \o << ErrorLine(exc), HintLine, PipLine >>
  /\ pc' = "crashed"
  /\ UNCHANGED << fs, models_dir, exc, model, model_src, all_exists, vi, run,
                  start, checked, exports, moves, verifies >>

\* Lines 35-38: except Exception as e: three prints, then the function returns.
Except ==
  /\ pc = "except"
  /\ caught' = TRUE
  /\ out' = out \o << ErrorLine(exc), HintLine, PipLine >>
  /\ pc' = "returned"
  /\ UNCHANGED << fs, models_dir, exc, model, model_src, all_exists, vi, run,
                  start, checked, exports, moves, verifies >>

\* --------------------------------------------------------------- Verifier
\* Line 61 calls verify_downloads; lines 42-47 set up its locals.
VerifyEnter ==
  /\ pc = "returned"
  /\ all_exists' = TRUE
  /\ vi' = 1
  /\ verifies' = verifies + 1
  /\ pc' = "verify"
  /\ UNCHANGED << fs, models_dir, out, exc, caught, model, model_src, run,
                  start, checked, exports, moves >>

UpdateLastOnly(all, exists) == exists

\* Lines 51-52: if not exists: all_exists = False
UpdateAllExists(all, exists) == IF ~exists THEN FALSE ELSE all

\* Lines 48-52: one iteration of the loop over required_files.
VerifyStep ==
  /\ pc = "verify"
  /\ vi <= Len(required_files)
  /\ LET name   == required_files[vi].name
         path   == required_files[vi].path
         exists == Exists(path)
     IN  /\ out' = Append(out, StatusLine(name, exists, path))
         /\ all_exists' = UpdateAllExists(all_exists, exists)
  /\ vi' = vi + 1
  /\ UNCHANGED << fs, models_dir, pc, exc, caught, model, model_src, run,
                  start, checked, exports, moves, verifies >>

\* Line 54: return all_exists
VerifyReturn ==
  /\ pc = "verify"
  /\ vi > Len(required_files)
  /\ pc' = "summary"
  /\ UNCHANGED << fs, models_dir, out, exc, caught, model, model_src,
                  all_exists, vi, run, start, checked, exports, moves,
                  verifies >>

\* ------------------------------------------------------------ entry point
SummaryFromAcquirer(ok) == IF ~caught THEN SuccessLine ELSE FailureLine

\* Lines 61-64: the summary line chosen by the Verifier's result.
SummaryLine(ok) == IF ok THEN SuccessLine ELSE FailureLine

MainSummary ==
  /\ pc = "summary"
  /\ out' = Append(out, SummaryLine(all_exists))
  /\ pc' = "exited"
  /\ UNCHANGED << fs, models_dir, exc, caught, model, model_src, all_exists,
                  vi, run, start, checked, exports, moves, verifies >>

\* The script is executed again, on the filesystem the last execution left.
NextRun ==
  /\ pc \in {"exited", "crashed"}
  /\ run < MaxRuns
  /\ run' = run + 1
  /\ pc' = "makedirs"
  /\ out' = << >>
  /\ exc' = "none"
  /\ caught' = FALSE
  /\ model' = Absent
  /\ model_src' = "none"
  /\ all_exists' = TRUE
  /\ vi' = 1
  /\ start' = fs
  /\ checked' = "none"
  /\ exports' = 0
  /\ moves' = 0
  /\ verifies' = 0
  /\ UNCHANGED << fs, models_dir >>

Next ==
  \/ Makedirs
  \/ LoadFirst
  \/ MovePt
  \/ CheckOnnx
  \/ LoadSecond
  \/ Export
  \/ MoveOnnx
  \/ Complete
  \/ Except
  \/ VerifyEnter
  \/ VerifyStep
  \/ VerifyReturn
  \/ MainSummary
  \/ NextRun

Spec == Init /\ [][Next]_vars

\* ------------------------------------------------------------- properties
Last(s) == s[Len(s)]

BothExist == Exists(pt_path) /\ Exists(onnx_path)

\* The run started with nothing under models/.
EmptyOutputDir == start[pt_path] = Absent /\ start[onnx_path] = Absent

\* The run started with no artifact anywhere.
CleanStart == \A p \in Paths : start[p] = Absent

\* The Acquirer has returned to the entry point.
AfterAcquirer == pc \in {"returned", "verify", "summary", "exited"}

Terminated == pc \in {"exited", "crashed"}

SummaryLines == SelectSeq(out, LAMBDA l : l \in {SuccessLine, FailureLine})

\* C1: a run that starts with an empty output directory and whose Acquirer
\* completes without a failure ends with models/yolov8n.pt and
\* models/yolov8n.onnx both on disk, wherever the loader and the converter
\* put their output.
C1_BothArtifactsAfterSuccess ==
  (AfterAcquirer /\ ~caught /\ EmptyOutputDir) => BothExist

\* C2: every failure of the Acquirer (loader, converter, directory creation,
\* file move) is caught inside download_yolov8n_models, which prints the
\* diagnostic and the remediation hint and returns; none reaches the entry
\* point.
C2_AllFailuresCaught ==
  (exc # "none") =>
     /\ pc # "crashed"
     /\ (AfterAcquirer =>
           /\ caught
           /\ \E i \in 1..Len(out) :
                /\ i + 2 <= Len(out)
                /\ out[i] = "Error downloading models: " \o exc
                /\ out[i + 1] = HintLine
                /\ out[i + 2] = PipLine)

\* C3: in every execution the Verifier is invoked exactly once, only after
\* the Acquirer has finished, and then exactly one summary line is printed
\* and the process terminates normally.
C3_VerifierAlwaysRunsOnce ==
  /\ (verifies > 0 => AfterAcquirer)
  /\ Terminated =>
       /\ pc = "exited"
       /\ verifies = 1
       /\ Len(SummaryLines) = 1

\* C4: when the first load raises in a run that starts from a clean
\* directory, the Acquirer prints the error and the hint and does not raise,
\* nothing is moved or converted, the Verifier reports both files Missing
\* and returns false, and the run ends with the "some files failed" summary.
C4_LoaderFailureFromClean ==
  (exc = "YOLO(yolov8n.pt)" /\ CleanStart) =>
     /\ pc # "crashed"
     /\ moves = 0
     /\ exports = 0
     /\ \A p \in Paths : ~Exists(p)
     /\ (pc = "summary" => ~all_exists)
     /\ (pc = "exited" =>
           out = << "Downloading YOLOv8n PyTorch model...",
                    "Error downloading models: YOLO(yolov8n.pt)",
                    "Please make sure you have the latest ultralytics package installed:",
                    "pip install --upgrade ultralytics",
                    "PyTorch model: Missing at models/yolov8n.pt",
                    "ONNX model: Missing at models/yolov8n.onnx",
                    "Some model files failed to download. Please check errors above." >>)

C4_Witness ==
  /\ pc = "exited"
  /\ exc = "YOLO(yolov8n.pt)"
  /\ CleanStart
  /\ Last(out) = FailureLine

\* C5: when models/yolov8n.onnx exists at the conversion check the converter
\* is not invoked in that run; a run that starts with models/yolov8n.onnx
\* in place (a second run after a successful one) never converts.
C5_NoReconversion ==
  /\ (checked = "present" =>
        /\ exports = 0
        /\ pc \notin {"load2", "export", "check_cwd_onnx"})
  /\ (start[onnx_path] # Absent =>
        /\ exports = 0
        /\ checked # "absent")

C5_Witness ==
  /\ run >= 2
  /\ start[pt_path] # Absent
  /\ start[onnx_path] # Absent
  /\ checked = "present"
  /\ ~caught
  /\ pc = "exited"

\* C6: an artifact that is under models/ when a run starts is never deleted
\* and its content is never replaced by that run.
C6_RelocatedNeverReplaced ==
  \A p \in {pt_path, onnx_path} : start[p] # Absent => fs[p] = start[p]

\* C7: verify_downloads returns true exactly when both files exist, prints
\* Found for the files that exist and Missing for the others, and changes
\* nothing on the filesystem.
C7_VerifierExact ==
  /\ [](pc = "summary" =>
          /\ all_exists <=> (fs[pt_path] # 0 /\ fs[onnx_path] # 0)
          /\ Len(out) >= 2
          /\ out[Len(out) - 1] =
               (IF fs[pt_path] # 0
                  THEN "PyTorch model: Found at models/yolov8n.pt"
                  ELSE "PyTorch model: Missing at models/yolov8n.pt")
          /\ out[Len(out)] =
               (IF fs[onnx_path] # 0
                  THEN "ONNX model: Found at models/yolov8n.onnx"
                  ELSE "ONNX model: Missing at models/yolov8n.onnx"))
  /\ [][(pc \in {"returned", "verify"}) =>
          (fs' = fs /\ models_dir' = models_dir)]_vars

C7_Witness ==
  /\ pc = "summary"
  /\ Exists(pt_path)
  /\ ~Exists(onnx_path)
  /\ ~all_exists
  /\ out[Len(out) - 1] = "PyTorch model: Found at models/yolov8n.pt"
  /\ out[Len(out)] = "ONNX model: Missing at models/yolov8n.onnx"

\* C8: after a run that starts with an empty output directory and whose
\* Acquirer completes without a caught failure, models/ holds both
\* yolov8n.pt and yolov8n.onnx and no artifact file is left in the
\* working directory.
C8_ExactLayoutAfterSuccess ==
  (AfterAcquirer /\ ~caught /\ EmptyOutputDir) =>
     /\ Exists(pt_path)
     /\ Exists(onnx_path)
     /\ ~Exists(cwd_pt)
     /\ ~Exists(cwd_onnx)

\* C9: whenever the conversion step runs (the load from models/yolov8n.pt
\* and the export), models/yolov8n.pt exists.
C9_PrimaryPresentAtConversion ==
  (pc \in {"load2", "export"}) => Exists(pt_path)

\* C10: the success summary is printed exactly when both files exist at
\* verification time, whether or not the Acquirer failed.
C10_SummaryFollowsFilesystem ==
  (pc = "exited") =>
     /\ Last(out) \in {SuccessLine, FailureLine}
     /\ (Last(out) = "All model files downloaded successfully!") <=>
          (fs[pt_path] # 0 /\ fs[onnx_path] # 0)

C10_Witness ==
  /\ pc = "exited"
  /\ caught
  /\ BothExist
  /\ Last(out) = "All model files downloaded successfully!"

=============================================================================
